---- MODULE Spec2Model ----
(***************************************************************************)
(* Willow image facade: Image.open, Image.save, Image.__getattr__ and the  *)
(* wrapper it returns (src/willow/image.py), together with the capability  *)
(* registry the facade resolves capabilities through (willow/registry.py,  *)
(* described in spec.md sections 3, 4.1 and 4.2).                          *)
(***************************************************************************)
EXTENDS Integers, Sequences, FiniteSets, TLC

VARIABLES operations, converters, phase, handle, opened, last, calls, streak, executed

vars == <<operations, converters, phase, handle, opened, last, calls, streak, executed>>

(***************************************************************************)
(* Bounds of the model.                                                    *)
(***************************************************************************)
\* converters registered during start-up
MaxConverters == 3
\* length of a conversion path the registry may hand to the facade
MaxPath == 2
\* calls made on one image
MaxCalls == 2

None == "None"

(***************************************************************************)
(* Format sniffing: filetype.guess_extension, called at image.py:81.       *)
(* A byte source is the sequence of its leading bytes.                     *)
(***************************************************************************)
StartsWith(buf, sig) ==
    /\ Len(buf) >= Len(sig)
    /\ \A i \in 1..Len(sig) : buf[i] = sig[i]

\* bytes [at+1 .. at+Len(sig)] of buf are sig
HasAt(buf, at, sig) ==
    /\ Len(buf) >= at + Len(sig)
    /\ \A i \in 1..Len(sig) : buf[at + i] = sig[i]

guess_extension(buf) ==
    IF StartsWith(buf, <<255, 216, 255>>) THEN "jpg"
    ELSE IF StartsWith(buf, <<137, 80, 78, 71>>) THEN "png"
    ELSE IF StartsWith(buf, <<71, 73, 70>>) THEN "gif"
    ELSE IF HasAt(buf, 8, <<87, 69, 66, 80>>) THEN "webp"
    ELSE IF StartsWith(buf, <<66, 77>>) THEN "bmp"
    ELSE IF StartsWith(buf, <<73, 73, 42, 0>>) \/ StartsWith(buf, <<77, 77, 0, 42>>)
         THEN "tif"
    ELSE IF StartsWith(buf, <<56, 66, 80, 83>>) THEN "psd"
    ELSE IF StartsWith(buf, <<37, 80, 68, 70>>) THEN "pdf"
    ELSE None

\* the byte sources opened in the model
JFIFBytes == <<255, 216, 255, 224, 0, 16, 74, 70, 73, 70, 0>>
PhotoshopBytes == <<255, 216, 255, 237, 0, 44, 80, 104, 111, 116, 111>>
PNGBytes == <<137, 80, 78, 71, 13, 10, 26, 10>>
GIFBytes == <<71, 73, 70, 56, 57, 97>>
BMPBytes == <<66, 77, 54, 0, 18, 0>>
TIFFBytes == <<73, 73, 42, 0, 8, 0, 0, 0, 14, 0>>
TIFFBigEndianBytes == <<77, 77, 0, 42, 0, 0, 0, 8, 0, 14>>
WebPBytes == <<82, 73, 70, 70, 36, 0, 0, 0, 87, 69, 66, 80, 86, 80, 56>>
PSDBytes == <<56, 66, 80, 83, 0, 1>>
PDFBytes == <<37, 80, 68, 70, 45, 49>>
JunkBytes == <<78, 111, 116, 32, 97, 110, 32, 105, 109, 97, 103, 101>>

Sources ==
    { JFIFBytes, PhotoshopBytes, PNGBytes, GIFBytes, BMPBytes, TIFFBytes,
      TIFFBigEndianBytes, WebPBytes, PSDBytes, PDFBytes, JunkBytes, <<>> }

(***************************************************************************)
(* The image classes of image.py.                                          *)
(***************************************************************************)
ImageFileClasses ==
    { "JPEGImageFile", "PNGImageFile", "GIFImageFile", "BMPImageFile",
      "TIFFImageFile", "WebPImageFile" }

BufferClasses == { "RGBImageBuffer", "RGBAImageBuffer" }

\* the classes named by file extension
format_name_swapped(cls) ==
    CASE cls = "JPEGImageFile" -> "jpg"
      [] cls = "PNGImageFile"  -> "png"
      [] cls = "GIFImageFile"  -> "gif"
      [] cls = "BMPImageFile"  -> "bmp"
      [] cls = "TIFFImageFile" -> "tif"
      [] cls = "WebPImageFile" -> "webp"
      [] OTHER -> None

format_name(cls) ==
    CASE cls = "JPEGImageFile" -> "jpeg"
      [] cls = "PNGImageFile"  -> "png"
      [] cls = "GIFImageFile"  -> "gif"
      [] cls = "BMPImageFile"  -> "bmp"
      [] cls = "TIFFImageFile" -> "tiff"
      [] cls = "WebPImageFile" -> "webp"
      [] OTHER -> None

\* the table keyed by format name instead of by extension
INITIAL_IMAGE_CLASSES_by_format_name(image_format) ==
    CASE image_format = "jpeg" -> "JPEGImageFile"
      [] image_format = "png"  -> "PNGImageFile"
      [] image_format = "gif"  -> "GIFImageFile"
      [] image_format = "bmp"  -> "BMPImageFile"
      [] image_format = "tiff" -> "TIFFImageFile"
      [] image_format = "webp" -> "WebPImageFile"
      [] OTHER -> None

\* dict.get(image_format): the class, or None for a key that is absent
INITIAL_IMAGE_CLASSES(image_format) ==
    CASE image_format = "jpg"  -> "JPEGImageFile"
      [] image_format = "png"  -> "PNGImageFile"
      [] image_format = "gif"  -> "GIFImageFile"
      [] image_format = "bmp"  -> "BMPImageFile"
      [] image_format = "tif"  -> "TIFFImageFile"
      [] image_format = "webp" -> "WebPImageFile"
      [] OTHER -> None

InitialImageClassKeys == { "jpg", "png", "gif", "bmp", "tif", "webp" }

\* an instance: its class, its payload and the attributes set on the instance
NewHandle(cls, f) == [cls |-> cls, f |-> f, attrs |-> {}]

NoHandle == [cls |-> None, f |-> <<>>, attrs |-> {}]

\* open that indexes the table instead of using dict.get
open_indexing(f) ==
    LET image_format == guess_extension(f)
        initial_class == INITIAL_IMAGE_CLASSES(image_format)
    IN  IF initial_class = None
        THEN IF image_format # None
             THEN [via |-> "open", kind |-> "raise", error |-> "KeyError",
                   message |-> None, image_format |-> image_format,
                   f |-> f, image |-> NoHandle]
             ELSE [via |-> "open", kind |-> "raise",
                   error |-> "UnrecognisedImageFormatError",
                   message |-> "Unknown image format", image_format |-> image_format,
                   f |-> f, image |-> NoHandle]
        ELSE [via |-> "open", kind |-> "return", error |-> None, message |-> None,
              image_format |-> image_format, f |-> f,
              image |-> NewHandle(initial_class, f)]

\* Image.open
open(f) ==
    LET image_format == guess_extension(f)
        initial_class == INITIAL_IMAGE_CLASSES(image_format)
    IN  IF initial_class = None
        THEN IF image_format # None
             THEN [via |-> "open", kind |-> "raise",
                   error |-> "UnrecognisedImageFormatError",
                   message |-> "Cannot load images", image_format |-> image_format,
                   f |-> f, image |-> NoHandle]
             ELSE [via |-> "open", kind |-> "raise",
                   error |-> "UnrecognisedImageFormatError",
                   message |-> "Unknown image format", image_format |-> image_format,
                   f |-> f, image |-> NoHandle]
        ELSE [via |-> "open", kind |-> "return", error |-> None, message |-> None,
              image_format |-> image_format, f |-> f,
              image |-> NewHandle(initial_class, f)]

NotOpened ==
    [via |-> None, kind |-> None, error |-> None, message |-> None,
     image_format |-> None, f |-> <<>>, image |-> NoHandle]

(***************************************************************************)
(* Capability registry and path resolver (spec.md 3, 4.1, 4.2).            *)
(* operations: the registered (node type, operation name) pairs.           *)
(* converters: the registered edges [from, to, cost], in registration      *)
(* order.  A path is a sequence of indices into converters.                *)
(***************************************************************************)
NodeTypes == { "JPEGImageFile", "RGBImageBuffer", "RGBAImageBuffer" }

OperationNames == { "get_size" }

Costs == { 0, 1 }

has_direct_operation(ops, node_type, name) == <<node_type, name>> \in ops

NotFound == [found |-> FALSE, path |-> <<>>, impl |-> None, cost |-> 0]

\* the frontier node popped next: lowest distance, the earliest discovered first
PopFrontier(dist, order, visited) ==
    LET frontier == { i \in 1..Len(order) : order[i] \notin visited }
        best == CHOOSE i \in frontier :
                    \A j \in frontier :
                        \/ dist[order[i]] < dist[order[j]]
                        \/ dist[order[i]] = dist[order[j]] /\ i <= j
    IN  order[best]

\* relax the edges leaving u, in registration order, from edge i on
RECURSIVE Relax(_, _, _, _)
Relax(convs, u, i, st) ==
    IF i > Len(convs) THEN st
    ELSE LET e == convs[i]
             d == st.dist[u] + e.cost
             improves == /\ e.from = u
                         /\ e.to \notin st.visited
                         /\ (e.to \notin DOMAIN st.dist \/ d < st.dist[e.to])
         IN  IF improves
             THEN Relax(convs, u, i + 1,
                        [dist    |-> [n \in DOMAIN st.dist \cup {e.to} |->
                                         IF n = e.to THEN d ELSE st.dist[n]],
                         via     |-> [n \in DOMAIN st.via \cup {e.to} |->
                                         IF n = e.to THEN i ELSE st.via[n]],
                         order   |-> IF e.to \in DOMAIN st.dist THEN st.order
                                     ELSE Append(st.order, e.to),
                         visited |-> st.visited])
             ELSE Relax(convs, u, i + 1, st)

\* the edges that lead from the start node to n
RECURSIVE PathTo(_, _, _, _)
PathTo(convs, via, start, n) ==
    IF n = start THEN <<>>
    ELSE Append(PathTo(convs, via, start, convs[via[n]].from), via[n])

\* shortest path search with early termination at the first popped node that
\* implements the operation
RECURSIVE Search(_, _, _, _, _)
Search(ops, convs, start, name, st) ==
    IF \A n \in DOMAIN st.dist : n \in st.visited THEN NotFound
    ELSE LET u == PopFrontier(st.dist, st.order, st.visited)
         IN  IF has_direct_operation(ops, u, name)
             THEN [found |-> TRUE, path |-> PathTo(convs, st.via, start, u),
                   impl |-> u, cost |-> st.dist[u]]
             ELSE Search(ops, convs, start, name,
                         Relax(convs, u, 1,
                               [st EXCEPT !.visited = st.visited \cup {u}]))

\* breadth-first variant: the implementing type reached over the fewest edges
RECURSIVE SearchFewestHops(_, _, _, _, _)
SearchFewestHops(ops, convs, start, name, st) ==
    IF \A n \in DOMAIN st.dist : n \in st.visited THEN NotFound
    ELSE LET u == CHOOSE n \in DOMAIN st.dist \ st.visited :
                      \A m \in DOMAIN st.dist \ st.visited :
                          Len(PathTo(convs, st.via, start, n))
                              <= Len(PathTo(convs, st.via, start, m))
         IN  IF has_direct_operation(ops, u, name)
             THEN [found |-> TRUE, path |-> PathTo(convs, st.via, start, u),
                   impl |-> u, cost |-> st.dist[u]]
             ELSE SearchFewestHops(ops, convs, start, name,
                         Relax(convs, u, 1,
                               [st EXCEPT !.visited = st.visited \cup {u}]))

SearchStart(start) ==
    [dist |-> [n \in {start} |-> 0], via |-> [n \in {start} |-> 0],
     order |-> <<start>>, visited |-> {}]

find_operation_fewest_hops(ops, convs, node_type, name) ==
    SearchFewestHops(ops, convs, node_type, name, SearchStart(node_type))

\* registry.find_operation: raises the not-found error when found is FALSE
find_operation(ops, convs, node_type, name) ==
    IF has_direct_operation(ops, node_type, name)
    THEN [found |-> TRUE, path |-> <<>>, impl |-> node_type, cost |-> 0]
    ELSE Search(ops, convs, node_type, name, SearchStart(node_type))

\* register_operation: a name is registered once per node type
register_operation(node_type, name) ==
    /\ phase = "setup"
    /\ <<node_type, name>> \notin operations
    /\ operations' = operations \cup {<<node_type, name>>}
    /\ UNCHANGED <<converters, phase, handle, opened, last, calls, streak, executed>>

\* register_converter: appended to the edge list; the cost is not negative
register_converter(source_type, dest_type, cost) ==
    /\ phase = "setup"
    /\ cost >= 0
    /\ source_type # dest_type
    /\ converters' = Append(converters,
                            [from |-> source_type, to |-> dest_type, cost |-> cost])
    /\ UNCHANGED <<operations, phase, handle, opened, last, calls, streak, executed>>

(***************************************************************************)
(* Dispatch facade: Image.__getattr__, its wrapper, and Image.save.        *)
(* A call is recorded as the trace of what it executed and its outcome.    *)
(***************************************************************************)
Event(ev, name, converter, image, args) ==
    [ev |-> ev, name |-> name, converter |-> converter, image |-> image,
     args |-> args]

NoConverter == [from |-> None, to |-> None, cost |-> 0]

Return(value) == [kind |-> "return", value |-> value, error |-> None]

NoValue == <<>>

Raise(error) == [kind |-> "raise", value |-> NoValue, error |-> error]

\* what an operation implementation returns for the image and arguments given
OperationResult(name, image, args) == <<name, image.cls, image.f, args>>

\* what a mock.MagicMock() set as an attribute returns when called
MockResult(name, args) == <<name, "MagicMock", <<>>, args>>

\* what a converter returns: a new instance of its destination class
Converted(converter, image) == NewHandle(converter.to, image.f)

\* the result of registry.find_operation as the facade unpacks it
Resolution(found, impl, conversion_path) ==
    [found |-> found, impl |-> impl, conversion_path |-> conversion_path]

Unresolved == Resolution(FALSE, None, <<>>)

\* the loop of the wrapper from its i-th converter on, then the operation;
\* failAt = k > 0 makes the k-th call the wrapper makes raise
RECURSIVE wrapper_from(_, _, _, _, _, _, _)
wrapper_from(attr, res, args, failAt, i, image, trace) ==
    IF i > Len(res.conversion_path)
    THEN LET ran == Append(trace, Event("operation", attr, NoConverter, image, args))
         IN  IF failAt = i
             THEN [trace |-> ran, outcome |-> Raise("BadImageOperationError")]
             ELSE [trace |-> ran,
                   outcome |-> Return(OperationResult(attr, image, args))]
    ELSE LET converter == res.conversion_path[i]
             ran == Append(trace, Event("convert", attr, converter, image, <<>>))
         IN  IF failAt = i
             THEN [trace |-> ran, outcome |-> Raise("ConversionError")]
             ELSE wrapper_from(attr, res, args, failAt, i + 1,
                               Converted(converter, image), ran)

\* a wrapper that applies the operation to self without converting it
wrapper_no_conversion(self, attr, res, args, failAt, trace) ==
    wrapper_from(attr, [res EXCEPT !.conversion_path = <<>>], args,
                 IF failAt > Len(res.conversion_path) THEN 1 ELSE 0, 1, self, trace)

\* a wrapper that carries on after a converter has raised
wrapper_swallowing(self, attr, res, args, failAt, trace) ==
    IF failAt \in 1..Len(res.conversion_path)
    THEN wrapper_from(attr, res, args, 0, 1, self, trace)
    ELSE wrapper_from(attr, res, args, failAt, 1, self, trace)

\* a wrapper that keeps the image the call before converted to
wrapper_cached(self, attr, res, args, failAt, trace) ==
    IF last.attr = attr /\ last.outcome.kind = "return" /\ failAt = 0
    THEN wrapper_from(attr, [res EXCEPT !.conversion_path = <<>>], args, 0, 1,
                      NewHandle(res.impl, self.f), trace)
    ELSE wrapper_from(attr, res, args, failAt, 1, self, trace)

\* the wrapper __getattr__ returns, called with args
wrapper(self, attr, res, args, failAt, trace) ==
    wrapper_from(attr, res, args, failAt, 1, self, trace)

\* __getattr__ that answers an unknown operation with a default value
getattr_default(self, attr, res, args, failAt) ==
    LET looked == <<Event("find", attr, NoConverter, self, <<>>)>>
    IN  IF ~res.found
        THEN [trace |-> looked, outcome |-> Return(NoValue)]
        ELSE wrapper(self, attr, res, args, failAt, looked)

\* getattr(self, attr)(*args): an attribute set on the instance is found by the
\* normal lookup; otherwise __getattr__ asks the registry
getattr_call(self, attr, res, args, failAt) ==
    IF attr \in self.attrs
    THEN [trace |-> <<Event("attribute", attr, NoConverter, self, args)>>,
          outcome |-> Return(MockResult(attr, args))]
    ELSE LET looked == <<Event("find", attr, NoConverter, self, <<>>)>>
         IN  IF ~res.found
             THEN [trace |-> looked, outcome |-> Raise("AttributeError")]
             ELSE wrapper(self, attr, res, args, failAt, looked)

SupportedFormats == { "jpeg", "png", "gif", "bmp", "tiff", "webp" }

\* save that validates against the keys of the initial-class table
save_by_extension(self, image_format, output, res, failAt) ==
    IF image_format \notin InitialImageClassKeys
    THEN [trace |-> <<>>, outcome |-> Raise("ValueError")]
    ELSE getattr_call(self, "save_as_" \o image_format, res, <<output>>, failAt)

\* save that dispatches first and validates the name afterwards
save_try_and_catch(self, image_format, output, res, failAt) ==
    LET done == getattr_call(self, "save_as_" \o image_format, res, <<output>>, failAt)
    IN  IF image_format \notin SupportedFormats
        THEN [trace |-> done.trace, outcome |-> Raise("ValueError")]
        ELSE done

\* Image.save
save(self, image_format, output, res, failAt) ==
    IF image_format \notin SupportedFormats
    THEN [trace |-> <<>>, outcome |-> Raise("ValueError")]
    ELSE getattr_call(self, "save_as_" \o image_format, res, <<output>>, failAt)

(***************************************************************************)
(* State machine.                                                          *)
(* handle: the image the caller holds; opened: what produced it;           *)
(* last: the most recent call made on it; calls: how many were made;       *)
(* streak: how many calls in a row, up to and including last, asked for    *)
(* the same registry-resolved capability and returned; executed: how many  *)
(* converters those calls ran.                                             *)
(***************************************************************************)
NoCall ==
    [call |-> None, attr |-> None, self |-> NoHandle, args |-> <<>>,
     res |-> Unresolved, failAt |-> 0, trace |-> <<>>,
     outcome |-> Return(NoValue)]

Call(call, attr, self, args, res, failAt, done) ==
    [call |-> call, attr |-> attr, self |-> self, args |-> args, res |-> res,
     failAt |-> failAt, trace |-> done.trace, outcome |-> done.outcome]

Init ==
    /\ operations = {}
    /\ converters = <<>>
    /\ phase = "setup"
    /\ handle = NoHandle
    /\ opened = NotOpened
    /\ last = NoCall
    /\ calls = 0
    /\ streak = 0
    /\ executed = 0

\* image = Image.open(f)
Open(f) ==
    /\ opened' = open(f)
    /\ handle' = opened'.image
    /\ last' = NoCall
    /\ calls' = 0
    /\ streak' = 0
    /\ executed' = 0
    /\ UNCHANGED <<operations, converters, phase>>

\* image = Image()
Construct ==
    /\ handle' = NewHandle("Image", <<>>)
    /\ opened' = [NotOpened EXCEPT !.via = "Image", !.kind = "return",
                                   !.image = handle']
    /\ last' = NoCall
    /\ calls' = 0
    /\ streak' = 0
    /\ executed' = 0
    /\ UNCHANGED <<operations, converters, phase>>

\* image.<name> = mock.MagicMock()
SetAttribute(name) ==
    /\ handle # NoHandle
    /\ name \notin handle.attrs
    /\ handle' = [handle EXCEPT !.attrs = @ \cup {name}]
    /\ UNCHANGED <<operations, converters, phase, opened, last, calls, streak, executed>>

CapabilityNames == { "get_size", "save_as_jpeg" }

MockNames == { "save_as_jpeg" }

FormatNames == SupportedFormats \cup { "foo", "jpg", "" }

Converter(from, to) == [from |-> from, to |-> to, cost |-> 1]

\* the conversion paths of at most n converters that start at node type cls
RECURSIVE PathsFrom(_, _)
PathsFrom(cls, n) ==
    IF n = 0 THEN { <<>> }
    ELSE { <<>> } \cup
         UNION { { <<Converter(cls, t)>> \o p : p \in PathsFrom(t, n - 1) } :
                   t \in BufferClasses \ {cls} }

PathEnd(cls, path) == IF path = <<>> THEN cls ELSE path[Len(path)].to

\* what registry.find_operation may answer for a query from node type cls: the
\* not-found error, or an implementing type with a conversion path leading to it.
\* Under Spec the content of the registry is left open and every such answer is
\* considered; under SpecRegistry the answer is computed from the registrations.
Resolutions(cls) ==
    { Unresolved } \cup
    { Resolution(TRUE, PathEnd(cls, p), p) : p \in PathsFrom(cls, MaxPath) }

\* the registry answers the query it has just answered the same way
SameAnswer(self, attr, res) ==
    (last.attr = attr /\ last.self.cls = self.cls /\ attr \notin last.self.attrs)
        => res = last.res

FailPoints(self, attr, res) ==
    IF attr \in self.attrs \/ ~res.found THEN { 0 }
    ELSE 0..(Len(res.conversion_path) + 1)

Conversions(trace) == { i \in 1..Len(trace) : trace[i].ev = "convert" }

\* a call that went through the registry and returned
Returned(c) ==
    /\ c.call # None
    /\ c.outcome.kind = "return"
    /\ Len(c.trace) > 0
    /\ c.trace[1].ev = "find"

\* the bookkeeping of a call c made after last
Record(c) ==
    /\ last' = c
    /\ calls' = calls + 1
    /\ streak' = IF ~Returned(c) THEN 0
                 ELSE IF Returned(last) /\ last.attr = c.attr THEN streak + 1
                 ELSE 1
    /\ executed' = IF ~Returned(c) THEN 0
                   ELSE IF Returned(last) /\ last.attr = c.attr
                        THEN executed + Cardinality(Conversions(c.trace))
                   ELSE Cardinality(Conversions(c.trace))

\* image.<attr>(*args), the registry answering res
Invoke(attr, args, res, failAt) ==
    /\ handle # NoHandle
    /\ Record(Call("invoke", attr, handle, args, res, failAt,
                   getattr_call(handle, attr, res, args, failAt)))
    /\ UNCHANGED <<operations, converters, phase, handle, opened>>

\* image.save(image_format, output), the registry answering res
Save(image_format, output, res, failAt) ==
    /\ handle # NoHandle
    /\ Record(Call("save", "save_as_" \o image_format, handle,
                   <<image_format, output>>, res, failAt,
                   save(handle, image_format, output, res, failAt)))
    /\ UNCHANGED <<operations, converters, phase, handle, opened>>

Next ==
    \/ \E f \in Sources : Open(f)
    \/ Construct
    \/ \E name \in MockNames : SetAttribute(name)
    \/ \E attr \in CapabilityNames, res \in Resolutions(handle.cls) :
         /\ calls < MaxCalls
         /\ SameAnswer(handle, attr, res)
         /\ \E failAt \in FailPoints(handle, attr, res) :
              Invoke(attr, <<"size">>, res, failAt)
    \/ \E image_format \in FormatNames, res \in Resolutions(handle.cls) :
         /\ calls < MaxCalls
         /\ SameAnswer(handle, "save_as_" \o image_format, res)
         /\ \E failAt \in FailPoints(handle, "save_as_" \o image_format, res) :
              Save(image_format, "outfile", res, failAt)

Spec == Init /\ [][Next]_vars

(***************************************************************************)
(* The facade over the registry: operations and converters are registered  *)
(* during start-up, then an image is opened and a capability resolved      *)
(* through find_operation.                                                 *)
(***************************************************************************)
\* the answer of find_operation as __getattr__ receives it
Resolve(cls, attr) ==
    LET r == find_operation(operations, converters, cls, attr)
    IN  Resolution(r.found, r.impl,
                   [i \in 1..Len(r.path) |-> converters[r.path[i]]])

\* registration is complete when the first image is opened
OpenAfterStartUp(f) ==
    /\ phase = "setup"
    /\ phase' = "ready"
    /\ opened' = open(f)
    /\ handle' = opened'.image
    /\ UNCHANGED <<operations, converters, last, calls, streak, executed>>

RegistrySources == { JFIFBytes }

NextRegistry ==
    \/ \E t \in NodeTypes, name \in OperationNames : register_operation(t, name)
    \/ \E s \in NodeTypes, d \in NodeTypes, c \in Costs :
         /\ Len(converters) < MaxConverters
         /\ register_converter(s, d, c)
    \/ \E f \in RegistrySources : OpenAfterStartUp(f)
    \/ \E attr \in OperationNames :
         /\ phase = "ready"
         /\ calls = 0
         /\ Invoke(attr, <<"size">>, Resolve(handle.cls, attr), 0)

SpecRegistry == Init /\ [][NextRegistry]_vars

(***************************************************************************)
(* Properties of open.                                                     *)
(***************************************************************************)
\* the signatures the sniffer knows; the fourth starts at byte 9
KnownSignature(f) ==
    \/ \E sig \in { <<255, 216, 255>>, <<137, 80, 78, 71>>, <<71, 73, 70>>,
                    <<66, 77>>, <<73, 73, 42, 0>>, <<77, 77, 0, 42>>,
                    <<56, 66, 80, 83>>, <<37, 80, 68, 70>> } : StartsWith(f, sig)
    \/ HasAt(f, 8, <<87, 69, 66, 80>>)

OpenedAs(cls, name) ==
    /\ opened.kind = "return"
    /\ opened.image.cls = cls
    /\ opened.image.f = opened.f
    /\ handle.cls = cls
    /\ format_name(handle.cls) = name

\* C3: open returns the class and format name of the sniffed signature: PNG
\* bytes give a PNGImageFile named "png", JPEG/JFIF bytes a JPEGImageFile named
\* "jpeg", GIF89a bytes a GIFImageFile named "gif", BMP and TIFF bytes likewise,
\* and bytes matching no signature give UnrecognisedImageFormatError and no handle.
C3_OpenBySignature ==
    opened.via = "open" =>
        /\ StartsWith(opened.f, <<137, 80, 78, 71, 13, 10, 26, 10>>)
               => OpenedAs("PNGImageFile", "png")
        /\ StartsWith(opened.f, <<255, 216, 255, 224, 0, 16, 74, 70, 73, 70, 0>>)
               => OpenedAs("JPEGImageFile", "jpeg")
        /\ StartsWith(opened.f, <<71, 73, 70, 56, 57, 97>>)
               => OpenedAs("GIFImageFile", "gif")
        /\ StartsWith(opened.f, <<66, 77>>) => OpenedAs("BMPImageFile", "bmp")
        /\ (StartsWith(opened.f, <<73, 73, 42, 0>>)
               \/ StartsWith(opened.f, <<77, 77, 0, 42>>))
               => OpenedAs("TIFFImageFile", "tiff")
        /\ ~KnownSignature(opened.f) =>
               /\ opened.kind = "raise"
               /\ opened.error = "UnrecognisedImageFormatError"
               /\ handle = NoHandle

C3_Witness ==
    /\ opened.via = "open"
    /\ opened.f = JFIFBytes
    /\ handle.cls = "JPEGImageFile"

\* C6: a format the sniffer recognises that has no entry in the initial-class
\* table makes open fail with UnrecognisedImageFormatError and build no handle.
C6_UnmappedFormatRejected ==
    ( /\ opened.via = "open"
      /\ opened.image_format # None
      /\ opened.image_format \notin { "jpg", "png", "gif", "bmp", "tif", "webp" } )
    => /\ opened.kind = "raise"
       /\ opened.error = "UnrecognisedImageFormatError"
       /\ opened.image = NoHandle
       /\ handle = NoHandle

C6_Witness ==
    /\ opened.via = "open"
    /\ opened.f = PSDBytes
    /\ opened.image_format = "psd"
    /\ opened.kind = "raise"

(***************************************************************************)
(* Properties of save.                                                     *)
(***************************************************************************)
Invocations(trace) ==
    { i \in 1..Len(trace) : trace[i].ev \in { "attribute", "operation" } }

\* C1: save with a format name outside {jpeg, png, gif, bmp, tiff, webp} fails
\* with ValueError before any dispatch: no capability is invoked, no registry
\* lookup is made, nothing receives the sink.
C1_UnknownFormatRejected ==
    ( /\ last.call = "save"
      /\ last.args[1] \notin { "jpeg", "png", "gif", "bmp", "tiff", "webp" } )
    => /\ last.outcome = Raise("ValueError")
       /\ last.trace = <<>>

C1_Witness ==
    /\ last.call = "save"
    /\ last.args[1] = "foo"
    /\ "save_as_jpeg" \in last.self.attrs
    /\ last.res.found

\* C2 as stated: save with a supported format name invokes the capability
\* save_as_<format> exactly once with the sink as its only argument, invokes no
\* other capability, and returns its result.
C2_SaveInvokesOnce ==
    ( /\ last.call = "save"
      /\ last.args[1] \in { "jpeg", "png", "gif", "bmp", "tiff", "webp" } )
    => /\ Cardinality(Invocations(last.trace)) = 1
       /\ \A i \in Invocations(last.trace) :
            /\ last.trace[i].name = "save_as_" \o last.args[1]
            /\ last.trace[i].args = <<last.args[2]>>
       /\ last.outcome.kind = "return" =>
            last.outcome.value \in
                { MockResult("save_as_" \o last.args[1], <<last.args[2]>>),
                  OperationResult("save_as_" \o last.args[1],
                                  last.trace[Len(last.trace)].image,
                                  <<last.args[2]>>) }

\* C2 amended: save with a supported format name asks for the capability
\* save_as_<format> and for no other; when it is found, as an attribute of the
\* handle or through the registry, and every converter of its path succeeds, it
\* is invoked exactly once, last, with the sink as its only argument, and its
\* result is what save returns; when it is not found save fails with
\* AttributeError, and when a converter fails save fails with that error, and in
\* both cases no capability is invoked.
C2_SaveInvokesOnceWhenResolved ==
    ( /\ last.call = "save"
      /\ last.args[1] \in { "jpeg", "png", "gif", "bmp", "tiff", "webp" } )
    => LET name == "save_as_" \o last.args[1]
           found == name \in last.self.attrs \/ last.res.found
           converted == last.outcome # Raise("ConversionError")
       IN  /\ Len(last.trace) > 0
           /\ last.trace[1].ev \in { "attribute", "find" }
           /\ \A i \in 1..Len(last.trace) : last.trace[i].name = name
           /\ \A i \in Invocations(last.trace) :
                /\ i = Len(last.trace)
                /\ last.trace[i].args = <<last.args[2]>>
           /\ (found /\ converted) =>
                /\ Cardinality(Invocations(last.trace)) = 1
                /\ last.outcome \in
                     { Return(MockResult(name, <<last.args[2]>>)),
                       Return(OperationResult(name, last.trace[Len(last.trace)].image,
                                              <<last.args[2]>>)),
                       Raise("BadImageOperationError") }
           /\ ~found =>
                /\ Invocations(last.trace) = {}
                /\ last.outcome = Raise("AttributeError")
           /\ ~converted => Invocations(last.trace) = {}

C2_Witness ==
    /\ last.call = "save"
    /\ last.args[1] = "webp"
    /\ Len(last.res.conversion_path) = MaxPath
    /\ last.outcome.kind = "return"
    /\ Cardinality(Invocations(last.trace)) = 1

\* C10: the format names of the classes in the initial-class table are exactly
\* the names save accepts, so saving an opened image under its own format name
\* never fails format validation.
C10_OpenedFormatsAreSaveable ==
    /\ { format_name(INITIAL_IMAGE_CLASSES(k)) : k \in InitialImageClassKeys }
           = SupportedFormats
    /\ ( /\ last.call = "save"
         /\ opened.via = "open"
         /\ last.args[1] = format_name(last.self.cls) )
       => /\ last.outcome # Raise("ValueError")
          /\ Len(last.trace) > 0

C10_Witness ==
    /\ last.call = "save"
    /\ opened.via = "open"
    /\ last.self.cls = "TIFFImageFile"
    /\ last.args[1] = format_name(last.self.cls)
    /\ last.outcome.kind = "return"

(***************************************************************************)
(* Properties of path execution.                                           *)
(***************************************************************************)
\* the arguments the caller hands to the capability
CallerArgs(c) == IF c.call = "save" THEN <<c.args[2]>> ELSE c.args

\* a call whose capability the registry resolved
Resolved(c) ==
    /\ c.call # None
    /\ Len(c.trace) > 0
    /\ c.trace[1].ev = "find"
    /\ c.res.found

\* C7: a resolved call that returns has run the n converters of its path in
\* path order, each once, the first on the original handle and each later one
\* on the handle the one before produced, then the operation once on the last
\* handle produced (the original when n = 0) with the caller's arguments, and
\* has returned the operation's result unmodified.
C7_PathExecutedInOrder ==
    (Resolved(last) /\ last.outcome.kind = "return") =>
        LET n == Len(last.res.conversion_path)
            t == last.trace
        IN  /\ Len(t) = n + 2
            /\ \A i \in 1..n :
                 /\ t[i + 1].ev = "convert"
                 /\ t[i + 1].converter = last.res.conversion_path[i]
                 /\ t[i + 1].image.cls = t[i + 1].converter.from
                 /\ i = 1 => t[i + 1].image = last.self
                 /\ i > 1 => t[i + 1].image = Converted(t[i].converter, t[i].image)
            /\ t[n + 2].ev = "operation"
            /\ t[n + 2].name = last.attr
            /\ t[n + 2].args = CallerArgs(last)
            /\ n = 0 => t[n + 2].image = last.self
            /\ n > 0 => t[n + 2].image = Converted(t[n + 1].converter, t[n + 1].image)
            /\ t[n + 2].image.cls = last.res.impl
            /\ last.outcome = Return(OperationResult(last.attr, t[n + 2].image,
                                                     CallerArgs(last)))

C7_Witness ==
    /\ Resolved(last)
    /\ last.call = "invoke"
    /\ last.outcome.kind = "return"
    /\ Len(last.res.conversion_path) = MaxPath
    /\ Cardinality(Conversions(last.trace)) = MaxPath

\* C8: when the k-th converter of a resolved path fails, no later converter and
\* not the operation is executed; a failure of a converter or of the operation
\* is the failure of the call, with the same error: it is not swallowed, not
\* retried, not replaced by an attribute error or a result.
C8_NoPartialSuccess ==
    (Resolved(last) /\ last.failAt > 0) =>
        LET n == Len(last.res.conversion_path)
            k == last.failAt
            t == last.trace
        IN  /\ Len(t) = k + 1
            /\ k <= n =>
                 /\ last.outcome = Raise("ConversionError")
                 /\ t[k + 1].ev = "convert"
                 /\ t[k + 1].converter = last.res.conversion_path[k]
                 /\ Invocations(t) = {}
                 /\ Cardinality(Conversions(t)) = k
            /\ k = n + 1 =>
                 /\ last.outcome = Raise("BadImageOperationError")
                 /\ t[k + 1].ev = "operation"
                 /\ Cardinality(Invocations(t)) = 1
                 /\ Cardinality(Conversions(t)) = n

C8_Witness ==
    /\ Resolved(last)
    /\ last.failAt = 1
    /\ Len(last.res.conversion_path) = MaxPath
    /\ last.outcome = Raise("ConversionError")

\* C9: calls leave the type and payload of the handle as they were when it was
\* made and keep no intermediate handle: every returning call starts from the
\* original handle and runs its whole converter path, so a run of k calls of
\* one converted capability has run the converters of its path k times over.
C9_NoCachingAcrossCalls ==
    /\ handle.cls = opened.image.cls
    /\ handle.f = opened.image.f
    /\ last.call # None =>
         /\ last.self.cls = handle.cls
         /\ last.self.f = handle.f
    /\ (Resolved(last) /\ last.outcome.kind = "return") =>
         /\ Cardinality(Conversions(last.trace)) = Len(last.res.conversion_path)
         /\ last.trace[2].image = last.self
         /\ streak >= 1
         /\ executed = streak * Len(last.res.conversion_path)

C9_Witness ==
    /\ Resolved(last)
    /\ last.outcome.kind = "return"
    /\ streak = MaxCalls
    /\ Len(last.res.conversion_path) = MaxPath
    /\ executed = MaxCalls * MaxPath

(***************************************************************************)
(* Properties of resolution through the registry.                          *)
(***************************************************************************)
\* the node types some chain of registered converters leads to from the set
RECURSIVE ReachableFrom(_)
ReachableFrom(types) ==
    LET step == types \cup { converters[i].to :
                               i \in { j \in 1..Len(converters) :
                                         converters[j].from \in types } }
    IN  IF step = types THEN types ELSE ReachableFrom(step)

Unreachable(cls, attr) ==
    \A t \in ReachableFrom({cls}) : <<t, attr>> \notin operations

\* C4: a capability no converter chain leads to fails with the not-found error
\* of the facade; nothing is returned, and no converter and no operation runs.
C4_UnreachableIsNotFound ==
    (last.call # None /\ Unreachable(last.self.cls, last.attr)) =>
        /\ last.outcome = Raise("AttributeError")
        /\ Conversions(last.trace) = {}
        /\ Invocations(last.trace) = {}

C4_Witness ==
    /\ last.call # None
    /\ Unreachable(last.self.cls, last.attr)
    /\ last.self.cls = "JPEGImageFile"
    /\ \E i \in 1..Len(converters) : converters[i].from = "JPEGImageFile"
    /\ \E t \in NodeTypes : <<t, last.attr>> \in operations

\* the chains of at most n registered converters that start at node type cls
RECURSIVE WalksFrom(_, _)
WalksFrom(cls, n) ==
    IF n = 0 THEN { <<>> }
    ELSE { <<>> } \cup
         UNION { { <<converters[i]>> \o w : w \in WalksFrom(converters[i].to, n - 1) } :
                   i \in { j \in 1..Len(converters) : converters[j].from = cls } }

RECURSIVE TotalCost(_)
TotalCost(path) ==
    IF path = <<>> THEN 0 ELSE path[1].cost + TotalCost(Tail(path))

\* the converter chains from cls that end at a type implementing attr
RoutesTo(cls, attr) ==
    { w \in WalksFrom(cls, Len(converters)) :
        <<PathEnd(cls, w), attr>> \in operations }

\* C5: whenever some implementing type is reachable, the path find hands to the
\* facade is a route to an implementing type, and no route of registered
\* converters (parallel edges, several hops, 0-cost edges) costs less.
C5_ResolvedPathIsCheapest ==
    /\ \A t \in NodeTypes, attr \in OperationNames :
         (phase = "setup" /\ RoutesTo(t, attr) # {}) =>
            /\ Resolve(t, attr).found
            /\ Resolve(t, attr).conversion_path \in RoutesTo(t, attr)
            /\ \A w \in RoutesTo(t, attr) :
                 TotalCost(Resolve(t, attr).conversion_path) <= TotalCost(w)
    /\ (last.call # None /\ RoutesTo(last.self.cls, last.attr) # {}) =>
         /\ last.res.found
         /\ last.res.conversion_path \in RoutesTo(last.self.cls, last.attr)
         /\ \A w \in RoutesTo(last.self.cls, last.attr) :
              TotalCost(last.res.conversion_path) <= TotalCost(w)

C5_Witness ==
    /\ last.call # None
    /\ last.res.found
    /\ Len(last.res.conversion_path) > 1
    /\ \E w \in RoutesTo(last.self.cls, last.attr) :
         /\ Len(w) = 1
         /\ TotalCost(w) > TotalCost(last.res.conversion_path)
====
